---- MODULE Spec2Model ----
(***************************************************************************)
(* Model of the VMAX API authentication / session-security subsystem       *)
(* (src/src/services/AuthService.ts, utils/jwt, the RefreshToken ledger).  *)
(*                                                                         *)
(* Every service method is an async function; between two awaits other    *)
(* requests may run.  A request is a process p with a position pc[p]; one  *)
(* action is the resolution of one awaited storage operation together with *)
(* the synchronous code that follows it up to the next await.              *)
(*   Spec      sequential histories: a request starts only when no other   *)
(*             request is in flight.                                       *)
(*   SpecConc  requests interleave at their storage reads and writes.      *)
(***************************************************************************)
EXTENDS Integers, Sequences, FiniteSets, TLC

VARIABLES
    now,        \* wall clock, in whole seconds (Date.now() / 1000)
    nextUuid,   \* source of fresh uuidv4() / random token values
    users,      \* table users: id -> row
    ledger,     \* table refresh_tokens, in insertion order
    resets,     \* table password_resets, in insertion order
    pc,         \* position of each request
    local,      \* local variables of each request
    result,     \* response of the last finished request of each process
    epoch,      \* history: successful password resets of each user so far
    born,       \* history: per ledger row, the epoch of the credentials or of
                \* the refresh token the row was created from
    authz,      \* the last authorization question asked and its answer
    gate,       \* the last request put to the authenticate middleware
    sockets,    \* the WebSocket connections: id -> WebSocketClient
    clients,    \* WebSocketService.clients: the ids registered
    fleetSubscriptions,     \* fleetId -> set of client ids
    regulatorSubscriptions, \* regulatorId -> set of client ids
    cast,       \* history: the channel of the last broadcast
    regulator,  \* the row of regulator "r1" in table regulators
    rentals,    \* the rows of table r01_regulator_rentals
    nextRental  \* rental ids handed out so far

\* the state of the session subsystem
sessionVars == <<now, nextUuid, users, ledger, resets, pc, local, result, epoch, born>>

\* the state the session subsystem never touches
\* the state of the realtime hub
hubVars == <<sockets, clients, fleetSubscriptions, regulatorSubscriptions, cast>>

\* the state of the rental desk
rentalVars == <<regulator, rentals, nextRental>>

otherVars == <<authz, gate, hubVars, rentalVars>>

vars == <<sessionVars, otherVars>>

-----------------------------------------------------------------------------
(* Bounds of the model *)

MaxTime == 1        \* the clock stops ticking here
MaxLedger == 2      \* rows of refresh_tokens
MaxResets == 1      \* rows of password_resets
MaxHeader == 3      \* pieces of an Authorization header
MaxSent == 3        \* events the hub sends to one connection
MaxRentals == 2     \* rentals created

Procs == {1, 2}
\* the one client of a sequential history
SeqProcs == {1}

-----------------------------------------------------------------------------
(* Configuration and static data *)

\* JWT_REFRESH_TOKEN_EXPIRY, in seconds (deployment default '7d'; here '2s')
RefreshTTL == 2
\* JWT_ACCESS_TOKEN_EXPIRY, in seconds (deployment default '15m'; here '1s')
AccessTTL == 1
\* forgotPassword: 60 * 60 * 1000 ms, in seconds
ResetTTL == 3600

\* a null DATE column / absent value
Null == -1

\* new Date() written to revokedAt or usedAt: the code only ever tests these
\* columns against null, so the moment itself is not kept
NewDate == 0

UserRole == {"ADMIN", "SUB_ADMIN", "FLEET_MGR", "SUB_FLEET_MGR", "FLEET_USER",
             "REG_OWNER", "ONBOARDING", "UNIT_TESTER"}

UserIds == {"u1", "u2", "u3"}

Passwords == {"Passw0rd!A", "Passw0rd!B", "weak"}

\* bcrypt: the hash is not the password, verification recovers the match
hashPassword(password) == [bcrypt |-> password]
verifyPassword(password, hash) == hash.bcrypt = password

\* policy of utils/password: "weak" violates it, the other two satisfy it
validatePasswordStrength(password) == password # "weak"

\* SHA-256 of a token: deterministic, injective on the tokens of the model
hashToken(token) == [sha256 |-> token]

\* rows of table users at start: a fleet manager, a regulator owner and a
\* deactivated administrator
InitUsers ==
    [u \in UserIds |->
        CASE u = "u1" -> [id |-> "u1", email |-> "mgr@vmax", role |-> "FLEET_MGR",
                          fleetId |-> "f1", isActive |-> TRUE,
                          passwordHash |-> hashPassword("Passw0rd!A"),
                          lastLoginAt |-> Null]
          [] u = "u2" -> [id |-> "u2", email |-> "owner@vmax", role |-> "REG_OWNER",
                          fleetId |-> "null", isActive |-> TRUE,
                          passwordHash |-> hashPassword("Passw0rd!A"),
                          lastLoginAt |-> Null]
          [] OTHER    -> [id |-> "u3", email |-> "gone@vmax", role |-> "ADMIN",
                          fleetId |-> "null", isActive |-> FALSE,
                          passwordHash |-> hashPassword("Passw0rd!A"),
                          lastLoginAt |-> Null]]

Emails == {"mgr@vmax", "owner@vmax", "gone@vmax", "nobody@vmax"}

\* rows of table regulators that matter to the token claims
Regulators ==
    { [id |-> "r1", ownerUserId |-> "u2", isActive |-> TRUE],
      [id |-> "r2", ownerUserId |-> "u2", isActive |-> FALSE],
      [id |-> "r3", ownerUserId |-> "null", isActive |-> TRUE] }

-----------------------------------------------------------------------------
(* Token codec (utils/jwt) *)

\* jwt.sign: HS256 over the payload; the same payload gives the same string
JwtSign(payload) == [payload |-> payload, sig |-> "hs256"]

NoToken == [payload |-> [none |-> TRUE], sig |-> "none"]
\* a string that is no token signed with the server's secret
BadToken == [payload |-> [none |-> TRUE], sig |-> "forged"]

\* jwt.verify: signature, then the embedded expiry (exp <= clock is expired)
JwtVerifies(token) == token.sig = "hs256" /\ now < token.payload.exp

generateAccessToken(userId, email, role, fleetId, ownedRegulatorIds, jti) ==
    JwtSign([sub |-> email, userId |-> userId, role |-> role,
             fleetId |-> fleetId, ownedRegulatorIds |-> ownedRegulatorIds,
             jti |-> jti, iat |-> now, exp |-> now + AccessTTL])

generateRefreshToken(userId, email, family) ==
    JwtSign([sub |-> email, userId |-> userId, tokenFamily |-> family,
             iat |-> now, exp |-> now + RefreshTTL])

\* a rotation that does not pass the family on: every pair opens a family
generateTokenPair_NewFamily(userId, email, role, fleetId, ownedRegulatorIds, existingTokenFamily) ==
    [accessToken |-> generateAccessToken(userId, email, role, fleetId,
                                         ownedRegulatorIds, nextUuid),
     refreshToken |-> generateRefreshToken(userId, email, nextUuid + 1),
     tokenFamily |-> nextUuid + 1,
     refreshTokenExpiresAt |-> now + RefreshTTL,
     uuids |-> 2]

\* generateTokenPair: existingTokenFamily = Null mints a new family.
\* uuidv4() is called for the jti first, then for the family when none is given.
generateTokenPair(userId, email, role, fleetId, ownedRegulatorIds, existingTokenFamily) ==
    LET family == IF existingTokenFamily = Null THEN nextUuid + 1
                  ELSE existingTokenFamily
    IN [accessToken |-> generateAccessToken(userId, email, role, fleetId,
                                            ownedRegulatorIds, nextUuid),
        refreshToken |-> generateRefreshToken(userId, email, family),
        tokenFamily |-> family,
        refreshTokenExpiresAt |-> now + RefreshTTL,
        uuids |-> IF existingTokenFamily = Null THEN 2 ELSE 1]

-----------------------------------------------------------------------------
(* Responses *)

NoResult == [status |-> 0, code |-> "", message |-> "",
             accessToken |-> NoToken, refreshToken |-> NoToken]

\* AppError as rendered by errorHandler: status, error.code, error.message
AppError(message, statusCode, code) ==
    [status |-> statusCode, code |-> code, message |-> message,
     accessToken |-> NoToken, refreshToken |-> NoToken]

\* successResponse carrying a token pair
TokenResponse(tokenPair) ==
    [status |-> 200, code |-> "", message |-> "",
     accessToken |-> tokenPair.accessToken, refreshToken |-> tokenPair.refreshToken]

\* successResponse carrying { message }
MessageResponse(message) ==
    [status |-> 200, code |-> "", message |-> message,
     accessToken |-> NoToken, refreshToken |-> NoToken]

-----------------------------------------------------------------------------
(* Requests *)

NoUser == [id |-> "null", email |-> "", role |-> "", fleetId |-> "null",
           isActive |-> FALSE, passwordHash |-> hashPassword(""), lastLoginAt |-> Null]

NoRow == [userId |-> "null", tokenHash |-> [sha256 |-> NoToken], tokenFamily |-> Null,
          expiresAt |-> Null, revokedAt |-> Null]

NoPair == [accessToken |-> NoToken, refreshToken |-> NoToken, tokenFamily |-> Null,
           refreshTokenExpiresAt |-> Null, uuids |-> 0]

\* what held of the presented refresh token when the request arrived:
\*   valid    the token passed jwt.verify
\*   revoked  some ledger row of the token was revoked
\*   live     some ledger row of the token was not revoked
\*   fresh    the token is that of the newest ledger row, a row made by login
\*            and not revoked since
\*   stale    some ledger row of the token stems from before a password reset
\*            of its user
NoPre == [valid |-> FALSE, revoked |-> FALSE, live |-> FALSE, fresh |-> FALSE,
          stale |-> FALSE]

NoLocal == [op |-> "none", email |-> "", password |-> "", userId |-> "null",
            token |-> NoToken, user |-> NoUser, row |-> 0, stored |-> NoRow,
            owned |-> {}, pair |-> NoPair, epoch |-> 0, pre |-> NoPre]

Idle(p) == pc[p] = "idle"

\* a finished request of kind op
Done(p, op) == pc[p] = "idle" /\ local[p].op = op /\ result[p] # NoResult

\* the response is sent; of the request's frame only its arguments (and what
\* held of them at arrival) are kept
Finish(p, frame, response) ==
    /\ pc' = [pc EXCEPT ![p] = "idle"]
    /\ result' = [result EXCEPT ![p] = response]
    /\ local' = [local EXCEPT ![p] = [NoLocal EXCEPT !.op = frame.op,
                                                      !.email = frame.email,
                                                      !.password = frame.password,
                                                      !.userId = frame.userId,
                                                      !.token = frame.token,
                                                      !.pre = frame.pre]]

\* the request waits for its next storage operation
Await(p, label, frame) ==
    /\ pc' = [pc EXCEPT ![p] = label]
    /\ local' = [local EXCEPT ![p] = frame]
    /\ result' = [result EXCEPT ![p] = NoResult]

\* the refresh tokens of a login that has stored its row but not yet responded
Undelivered ==
    {local[p].pair.refreshToken : p \in {q \in Procs : pc[q] = "login_update"}}

\* the refresh tokens and access tokens handed out so far, and a forged one
\* (a caller presents what some response returned, or garbage)
KnownTokens ==
    ({ledger[i].tokenHash.sha256 : i \in 1..Len(ledger)} \ Undelivered)
      \cup {result[p].accessToken : p \in Procs} \cup {BadToken}

\* users who can hold an access token, i.e. call an authenticated route
Callers == {u \in UserIds : InitUsers[u].isActive}

\* a findAll that forgets isActive: true
OwnedRegulatorIds_Inactive(user) ==
    IF user.role = "REG_OWNER"
    THEN {r.id : r \in {x \in Regulators : x.ownerUserId = user.id}}
    ELSE {}

\* ownedRegulators.map(r => r.id)
OwnedRegulatorIds(user) ==
    IF user.role = "REG_OWNER"
    THEN {r.id : r \in {x \in Regulators : x.ownerUserId = user.id /\ x.isActive}}
    ELSE {}

-----------------------------------------------------------------------------
(* AuthService.login.  A request arrives when its first storage operation    *)
(* runs: the first action of every method takes the arguments.               *)

\* if (!user) throw ...
LoginNoUser == AppError("Invalid email or password", 401, "INVALID_CREDENTIALS")

\* a wrong password told apart from an unknown email
LoginBadPassword_Distinct == AppError("Incorrect password", 401, "WRONG_PASSWORD")

\* if (!isValidPassword) throw ...
LoginBadPassword == AppError("Invalid email or password", 401, "INVALID_CREDENTIALS")

\* User.findOne({ email, isActive: true }), verifyPassword on the row read,
\* then, for a role other than REG_OWNER, generateTokenPair
Login(p, email, password) ==
    /\ Idle(p)
    /\ LET frame == [NoLocal EXCEPT !.op = "login", !.email = email,
                                    !.password = password]
           found == {u \in UserIds : users[u].email = email /\ users[u].isActive}
       IN IF found = {}
          THEN /\ Finish(p, frame, LoginNoUser)
               /\ UNCHANGED nextUuid
          ELSE LET user == users[CHOOSE u \in found : TRUE]
               IN IF ~verifyPassword(password, user.passwordHash)
                  THEN /\ Finish(p, frame, LoginBadPassword)
                       /\ UNCHANGED nextUuid
                  ELSE IF user.role = "REG_OWNER"
                  THEN /\ Await(p, "login_findOwned",
                                [frame EXCEPT !.user = user, !.epoch = epoch[user.id]])
                       /\ UNCHANGED nextUuid
                  ELSE LET tokenPair == generateTokenPair(user.id, user.email, user.role,
                                                          user.fleetId, {}, Null)
                       IN /\ Await(p, "login_create",
                                   [frame EXCEPT !.user = user, !.pair = tokenPair,
                                                 !.epoch = epoch[user.id]])
                          /\ nextUuid' = nextUuid + tokenPair.uuids
    /\ UNCHANGED <<now, users, ledger, resets, epoch, born, otherVars>>

\* Regulator.findAll({ ownerUserId, isActive: true }), then generateTokenPair
LoginFindOwned(p) ==
    /\ pc[p] = "login_findOwned"
    /\ LET user == local[p].user
           owned == OwnedRegulatorIds(user)
           tokenPair == generateTokenPair(user.id, user.email, user.role,
                                          user.fleetId, owned, Null)
       IN /\ pc' = [pc EXCEPT ![p] = "login_create"]
          /\ local' = [local EXCEPT ![p].owned = owned, ![p].pair = tokenPair]
          /\ nextUuid' = nextUuid + tokenPair.uuids
    /\ UNCHANGED <<now, users, ledger, resets, result, epoch, born, otherVars>>

\* RefreshToken.create({ userId, tokenHash, tokenFamily, expiresAt })
LedgerRow(userId, tokenPair) ==
    [userId |-> userId, tokenHash |-> hashToken(tokenPair.refreshToken),
     tokenFamily |-> tokenPair.tokenFamily,
     expiresAt |-> tokenPair.refreshTokenExpiresAt, revokedAt |-> Null]

LoginCreate(p) ==
    /\ pc[p] = "login_create"
    /\ ledger' = Append(ledger, LedgerRow(local[p].user.id, local[p].pair))
    /\ born' = Append(born, local[p].epoch)
    /\ pc' = [pc EXCEPT ![p] = "login_update"]
    /\ UNCHANGED <<now, nextUuid, users, resets, local, result, epoch, otherVars>>

\* user.update({ lastLoginAt: new Date() }) and the response
LoginUpdate(p) ==
    /\ pc[p] = "login_update"
    /\ users' = [users EXCEPT ![local[p].user.id].lastLoginAt = now]
    /\ Finish(p, local[p], TokenResponse(local[p].pair))
    /\ UNCHANGED <<now, nextUuid, ledger, resets, epoch, born, otherVars>>

-----------------------------------------------------------------------------
(* AuthService.refreshTokens *)

\* a lookup that forgets the owner
RowsOf_AnyUser(token, userId) ==
    {i \in 1..Len(ledger) : ledger[i].tokenHash = hashToken(token)}

\* ledger rows RefreshToken.findOne({ tokenHash, userId }) can return
RowsOf(token, userId) ==
    {i \in 1..Len(ledger) : ledger[i].tokenHash = hashToken(token)
                            /\ ledger[i].userId = userId}

PreOf(token) ==
    [valid |-> JwtVerifies(token),
     revoked |-> \E i \in 1..Len(ledger) :
                    ledger[i].tokenHash = hashToken(token) /\ ledger[i].revokedAt # Null,
     live |-> \E i \in 1..Len(ledger) :
                    ledger[i].tokenHash = hashToken(token) /\ ledger[i].revokedAt = Null,
     fresh |-> /\ Len(ledger) > 0
               /\ ledger[Len(ledger)].tokenHash = hashToken(token)
               /\ ledger[Len(ledger)].revokedAt = Null
               /\ \A i \in 1..(Len(ledger) - 1) :
                     ledger[i].tokenFamily # ledger[Len(ledger)].tokenFamily,
     stale |-> \E i \in 1..Len(ledger) :
                  ledger[i].tokenHash = hashToken(token)
                  /\ born[i] < epoch[ledger[i].userId]]

\* verifyRefreshToken, then RefreshToken.findOne({ tokenHash, userId:
\* payload.userId }) and the checks on the row read.  With several matching
\* rows the storage returns any one of them (the query has no ORDER BY).
Refresh(p, token) ==
    /\ Idle(p)
    /\ LET frame == [NoLocal EXCEPT !.op = "refresh", !.token = token,
                                    !.pre = PreOf(token)]
       IN IF ~JwtVerifies(token)
          THEN Finish(p, frame, AppError("Invalid or expired refresh token", 401,
                                         "INVALID_REFRESH_TOKEN"))
          ELSE LET rows == RowsOf(token, token.payload.userId)
               IN IF rows = {}
                  THEN Finish(p, frame, AppError("Refresh token not found", 401,
                                                 "INVALID_REFRESH_TOKEN"))
                  ELSE \E i \in rows :
                         LET storedToken == ledger[i]
                             found == [frame EXCEPT !.userId = token.payload.userId,
                                                    !.row = i, !.stored = storedToken,
                                                    !.epoch = born[i]]
                         IN IF storedToken.revokedAt # Null
                            THEN Await(p, "refresh_revokeFamily", found)
                            ELSE IF storedToken.expiresAt < now
                            THEN Finish(p, frame, AppError("Refresh token has expired", 401,
                                                           "TOKEN_EXPIRED"))
                            ELSE Await(p, "refresh_findUser", found)
    /\ UNCHANGED <<now, nextUuid, users, ledger, resets, epoch, born, otherVars>>

\* RefreshToken.update({ revokedAt }, { where: { tokenFamily } }), then throw
RefreshRevokeFamily(p) ==
    /\ pc[p] = "refresh_revokeFamily"
    /\ ledger' = [i \in 1..Len(ledger) |->
                    IF ledger[i].tokenFamily = local[p].stored.tokenFamily
                    THEN [ledger[i] EXCEPT !.revokedAt = NewDate]
                    ELSE ledger[i]]
    /\ Finish(p, local[p], AppError("Refresh token has been revoked", 403, "TOKEN_REVOKED"))
    /\ UNCHANGED <<now, nextUuid, users, resets, epoch, born, otherVars>>

\* User.findByPk(payload.userId)
RefreshFindUser(p) ==
    /\ pc[p] = "refresh_findUser"
    /\ IF local[p].userId \notin UserIds \/ ~users[local[p].userId].isActive
       THEN Finish(p, local[p], AppError("User not found or inactive", 401, "USER_NOT_FOUND"))
       ELSE /\ pc' = [pc EXCEPT ![p] =
                        IF users[local[p].userId].role = "REG_OWNER"
                        THEN "refresh_findOwned" ELSE "refresh_revokeOld"]
            /\ local' = [local EXCEPT ![p].user = users[local[p].userId]]
            /\ UNCHANGED result
    /\ UNCHANGED <<now, nextUuid, users, ledger, resets, epoch, born, otherVars>>

\* Regulator.findAll({ ownerUserId, isActive: true })
RefreshFindOwned(p) ==
    /\ pc[p] = "refresh_findOwned"
    /\ pc' = [pc EXCEPT ![p] = "refresh_revokeOld"]
    /\ local' = [local EXCEPT ![p].owned = OwnedRegulatorIds(local[p].user)]
    /\ UNCHANGED <<now, nextUuid, users, ledger, resets, result, epoch, born, otherVars>>

\* storedToken.update({ revokedAt }), then generateTokenPair in the same family
RefreshRevokeOld(p) ==
    /\ pc[p] = "refresh_revokeOld"
    /\ ledger' = [ledger EXCEPT ![local[p].row].revokedAt = NewDate]
    /\ LET user == local[p].user
           tokenPair == generateTokenPair(user.id, user.email, user.role, user.fleetId,
                                          local[p].owned, local[p].stored.tokenFamily)
       IN /\ local' = [local EXCEPT ![p].pair = tokenPair]
          /\ nextUuid' = nextUuid + tokenPair.uuids
    /\ pc' = [pc EXCEPT ![p] = "refresh_create"]
    /\ UNCHANGED <<now, users, resets, result, epoch, born, otherVars>>

\* RefreshToken.create(...) and the response
RefreshCreate(p) ==
    /\ pc[p] = "refresh_create"
    /\ ledger' = Append(ledger, LedgerRow(local[p].user.id, local[p].pair))
    /\ born' = Append(born, local[p].epoch)
    /\ Finish(p, local[p], TokenResponse(local[p].pair))
    /\ UNCHANGED <<now, nextUuid, users, resets, epoch, otherVars>>

-----------------------------------------------------------------------------
(* AuthService.logout; userId is that of the authenticated caller *)

\* RefreshToken.findOne({ userId, tokenHash, revokedAt: null })
Logout(p, userId, token) ==
    /\ Idle(p)
    /\ LET frame == [NoLocal EXCEPT !.op = "logout", !.userId = userId, !.token = token]
           rows == {i \in RowsOf(token, userId) : ledger[i].revokedAt = Null}
       IN IF rows = {}
          THEN Finish(p, frame, MessageResponse("Logout successful"))
          ELSE \E i \in rows : Await(p, "logout_update", [frame EXCEPT !.row = i])
    /\ UNCHANGED <<now, nextUuid, users, ledger, resets, epoch, born, otherVars>>

\* token.update({ revokedAt: new Date() })
LogoutUpdate(p) ==
    /\ pc[p] = "logout_update"
    /\ ledger' = [ledger EXCEPT ![local[p].row].revokedAt = NewDate]
    /\ Finish(p, local[p], MessageResponse("Logout successful"))
    /\ UNCHANGED <<now, nextUuid, users, resets, epoch, born, otherVars>>

-----------------------------------------------------------------------------
(* AuthService.forgotPassword *)

\* generateRandomToken(): 32 random bytes
generateRandomToken == [random |-> nextUuid]

BadResetToken == [random |-> 0]

\* User.findOne({ email, isActive: true }); on a match the reset token is made
Forgot(p, email) ==
    /\ Idle(p)
    /\ LET frame == [NoLocal EXCEPT !.op = "forgot", !.email = email]
           found == {u \in UserIds : users[u].email = email /\ users[u].isActive}
       IN IF found = {}
          THEN /\ Finish(p, frame,
                         MessageResponse("Password reset email sent if account exists"))
               /\ UNCHANGED nextUuid
          ELSE /\ Await(p, "forgot_invalidate",
                        [frame EXCEPT !.userId = CHOOSE u \in found : TRUE,
                                      !.token = generateRandomToken,
                                      !.stored = [NoRow EXCEPT !.expiresAt = now + ResetTTL]])
               /\ nextUuid' = nextUuid + 1
    /\ UNCHANGED <<now, users, ledger, resets, epoch, born, otherVars>>

\* a forgotPassword that leaves the earlier reset rows usable
ForgotInvalidate_None(p) ==
    /\ pc[p] = "forgot_invalidate"
    /\ pc' = [pc EXCEPT ![p] = "forgot_create"]
    /\ UNCHANGED <<now, nextUuid, users, ledger, resets, local, result, epoch, born, otherVars>>

\* PasswordReset.update({ usedAt }, { where: { userId, usedAt: null } })
ForgotInvalidate(p) ==
    /\ pc[p] = "forgot_invalidate"
    /\ resets' = [i \in 1..Len(resets) |->
                    IF resets[i].userId = local[p].userId /\ resets[i].usedAt = Null
                    THEN [resets[i] EXCEPT !.usedAt = NewDate]
                    ELSE resets[i]]
    /\ pc' = [pc EXCEPT ![p] = "forgot_create"]
    /\ UNCHANGED <<now, nextUuid, users, ledger, local, result, epoch, born, otherVars>>

\* PasswordReset.create({ userId, tokenHash, expiresAt }) and the response
ForgotCreate(p) ==
    /\ pc[p] = "forgot_create"
    /\ resets' = Append(resets, [userId |-> local[p].userId,
                                 tokenHash |-> hashToken(local[p].token),
                                 expiresAt |-> local[p].stored.expiresAt,
                                 usedAt |-> Null])
    /\ Finish(p, [local[p] EXCEPT !.token = NoToken],
              MessageResponse("Password reset email sent if account exists"))
    /\ UNCHANGED <<now, nextUuid, users, ledger, epoch, born, otherVars>>

-----------------------------------------------------------------------------
(* AuthService.resetPassword *)

\* the reset tokens mailed so far, and a made-up one
KnownResetTokens == {resets[i].tokenHash.sha256 : i \in 1..Len(resets)} \cup {BadResetToken}

\* PasswordReset.findOne({ tokenHash, usedAt: null }), the expiry and the
\* password policy, hashPassword
Reset(p, token, newPassword) ==
    /\ Idle(p)
    /\ LET frame == [NoLocal EXCEPT !.op = "reset", !.token = token]
           rows == {i \in 1..Len(resets) : resets[i].tokenHash = hashToken(token)
                                           /\ resets[i].usedAt = Null}
       IN IF rows = {}
          THEN Finish(p, frame, AppError("Invalid or expired reset token", 400,
                                         "INVALID_RESET_TOKEN"))
          ELSE \E i \in rows :
                 IF resets[i].expiresAt < now
                 THEN Finish(p, frame, AppError("Reset token has expired", 400,
                                                "TOKEN_EXPIRED"))
                 ELSE IF ~validatePasswordStrength(newPassword)
                 THEN Finish(p, frame, AppError("password policy violations", 422,
                                                "WEAK_PASSWORD"))
                 ELSE Await(p, "reset_updateUser",
                            [frame EXCEPT !.row = i, !.userId = resets[i].userId,
                                          !.password = newPassword])
    /\ UNCHANGED <<now, nextUuid, users, ledger, resets, epoch, born, otherVars>>

\* User.update({ passwordHash }, { where: { id: resetRecord.userId } })
ResetUpdateUser(p) ==
    /\ pc[p] = "reset_updateUser"
    /\ users' = [users EXCEPT ![local[p].userId].passwordHash =
                                  hashPassword(local[p].password)]
    /\ pc' = [pc EXCEPT ![p] = "reset_markUsed"]
    /\ UNCHANGED <<now, nextUuid, ledger, resets, local, result, epoch, born, otherVars>>

\* resetRecord.update({ usedAt: new Date() })
ResetMarkUsed(p) ==
    /\ pc[p] = "reset_markUsed"
    /\ resets' = [resets EXCEPT ![local[p].row].usedAt = NewDate]
    /\ pc' = [pc EXCEPT ![p] = "reset_revokeAll"]
    /\ UNCHANGED <<now, nextUuid, users, ledger, local, result, epoch, born, otherVars>>

\* a resetPassword that revokes no refresh token
ResetRevokeAll_None(p) ==
    /\ pc[p] = "reset_revokeAll"
    /\ epoch' = [epoch EXCEPT ![local[p].userId] = @ + 1]
    /\ Finish(p, local[p], MessageResponse("Password reset successful"))
    /\ UNCHANGED <<now, nextUuid, users, ledger, resets, born, otherVars>>

\* RefreshToken.update({ revokedAt }, { where: { userId, revokedAt: null } })
\* and the success response
ResetRevokeAll(p) ==
    /\ pc[p] = "reset_revokeAll"
    /\ ledger' = [i \in 1..Len(ledger) |->
                    IF ledger[i].userId = local[p].userId /\ ledger[i].revokedAt = Null
                    THEN [ledger[i] EXCEPT !.revokedAt = NewDate]
                    ELSE ledger[i]]
    /\ epoch' = [epoch EXCEPT ![local[p].userId] = @ + 1]
    /\ Finish(p, local[p], MessageResponse("Password reset successful"))
    /\ UNCHANGED <<now, nextUuid, users, resets, born, otherVars>>

-----------------------------------------------------------------------------
(* The clock *)

Tick ==
    /\ now < MaxTime
    /\ now' = now + 1
    /\ UNCHANGED <<nextUuid, users, ledger, resets, pc, local, result, epoch, born, otherVars>>

-----------------------------------------------------------------------------

\* the roles whose scope is one fleet, and the system-wide roles
FleetIds == {"f1", "f2"}
NullId == "null"

\* JwtPayload, as far as the authorization predicates read it
Actors == [userId : UserIds, role : UserRole, fleetId : FleetIds \cup {NullId}]

\* a string | null is truthy when it is neither null nor empty
Truthy(id) == id # NullId /\ id # ""

canAccessFleet(user, fleetId) ==
    IF user.role = "ADMIN" \/ user.role = "SUB_ADMIN"
    THEN TRUE
    ELSE IF (user.role = "FLEET_MGR" \/ user.role = "SUB_FLEET_MGR")
            /\ user.fleetId = fleetId
    THEN TRUE
    ELSE FALSE

\* the second branch without its guard on regulatorFleetId
canAccessRegulator_NoGuard(user, regulatorFleetId, regulatorOwnerId) ==
    IF user.role = "ADMIN" \/ user.role = "SUB_ADMIN"
    THEN TRUE
    ELSE IF user.role \in {"FLEET_MGR", "SUB_FLEET_MGR", "FLEET_USER"}
            /\ user.fleetId = regulatorFleetId
    THEN TRUE
    ELSE IF user.role = "REG_OWNER" /\ regulatorOwnerId = user.userId
    THEN TRUE
    ELSE FALSE

canAccessRegulator(user, regulatorFleetId, regulatorOwnerId) ==
    IF user.role = "ADMIN" \/ user.role = "SUB_ADMIN"
    THEN TRUE
    ELSE IF (user.role = "FLEET_MGR" \/ user.role = "SUB_FLEET_MGR")
            /\ Truthy(regulatorFleetId) /\ user.fleetId = regulatorFleetId
    THEN TRUE
    ELSE IF user.role = "FLEET_USER"
            /\ Truthy(regulatorFleetId) /\ user.fleetId = regulatorFleetId
    THEN TRUE
    ELSE IF user.role = "REG_OWNER" /\ regulatorOwnerId = user.userId
    THEN TRUE
    ELSE FALSE

\* a fleet manager allowed to manage every role of the own fleet
canManageUser_AnyRole(requestingUser, targetUserRole, targetUserFleetId) ==
    IF requestingUser.role = "ADMIN"
    THEN TRUE
    ELSE IF requestingUser.role = "FLEET_MGR"
    THEN requestingUser.fleetId = targetUserFleetId
    ELSE FALSE

canManageUser(requestingUser, targetUserRole, targetUserFleetId) ==
    IF requestingUser.role = "ADMIN"
    THEN TRUE
    ELSE IF requestingUser.role = "FLEET_MGR"
    THEN LET fleetRoles == {"FLEET_USER", "SUB_FLEET_MGR"}
         IN targetUserRole \in fleetRoles
            /\ requestingUser.fleetId = targetUserFleetId
    ELSE FALSE

\* no question asked yet
NoAuthz(user) ==
    [user |-> user, op |-> "none", fleetId |-> NullId, ownerId |-> NullId,
     role |-> "", allowed |-> FALSE]

\* a route handler asks canAccessFleet(req.user, fleet id of the route)
AskFleet(fleetId) ==
    /\ authz' = [NoAuthz(authz.user) EXCEPT
                    !.op = "canAccessFleet", !.fleetId = fleetId,
                    !.allowed = canAccessFleet(authz.user, fleetId)]
    /\ UNCHANGED <<sessionVars, gate, hubVars, rentalVars>>

\* canAccessRegulator(req.user, regulator.fleetId, regulator.ownerUserId)
AskRegulator(regulatorFleetId, regulatorOwnerId) ==
    /\ authz' = [NoAuthz(authz.user) EXCEPT
                    !.op = "canAccessRegulator", !.fleetId = regulatorFleetId,
                    !.ownerId = regulatorOwnerId,
                    !.allowed = canAccessRegulator(authz.user, regulatorFleetId,
                                                   regulatorOwnerId)]
    /\ UNCHANGED <<sessionVars, gate, hubVars, rentalVars>>

\* canManageUser(req.user, target.role, target.fleetId)
AskManage(targetUserRole, targetUserFleetId) ==
    /\ authz' = [NoAuthz(authz.user) EXCEPT
                    !.op = "canManageUser", !.role = targetUserRole,
                    !.fleetId = targetUserFleetId,
                    !.allowed = canManageUser(authz.user, targetUserRole,
                                              targetUserFleetId)]
    /\ UNCHANGED <<sessionVars, gate, hubVars, rentalVars>>

-----------------------------------------------------------------------------
(* middleware/auth authenticate *)

\* an access token issued to actor at time 0
AccessTokenOf(actor) ==
    JwtSign([sub |-> "", userId |-> actor.userId, role |-> actor.role,
             fleetId |-> actor.fleetId, ownedRegulatorIds |-> {},
             jti |-> 0, iat |-> 0, exp |-> AccessTTL])

\* a verification that does not look at the expiry
verifyAccessToken_NoExpiry(token) ==
    IF token.sig # "hs256" THEN "JsonWebTokenError" ELSE "ok"

\* jwt.verify: the name of the error thrown, or "ok"
verifyAccessToken(token) ==
    IF token.sig # "hs256" THEN "JsonWebTokenError"
    ELSE IF now >= token.payload.exp THEN "TokenExpiredError"
    ELSE "ok"

\* errorResponse(res, code, message, statusCode)
errorResponse(code, message, statusCode) ==
    [status |-> statusCode, code |-> code, message |-> message]

unauthorized(message) == errorResponse("UNAUTHORIZED", message, 401)

NoResponse == [status |-> 0, code |-> "", message |-> ""]
NoClaims == [none |-> TRUE]

\* An Authorization header is a string, here a sequence of pieces: the words
\* "Bearer", "bearer", "Basic", the space " ", and three token strings.
GateActor == [userId |-> "u1", role |-> "FLEET_MGR", fleetId |-> "f1"]
TokenStrings == {"access", "forged", "garbage"}
HeaderPieces == {"Bearer", "bearer", "Basic", " "} \cup TokenStrings
Headers == UNION {[1..n -> HeaderPieces] : n \in 0..MaxHeader}

\* the token a string is: one signed by the server, one signed by somebody
\* else, or no JWT at all
TokenOfString(part) ==
    IF part = <<"access">> THEN AccessTokenOf(GateActor)
    ELSE IF part = <<"forged">> THEN BadToken
    ELSE NoToken

\* authHeader.split(' ')
RECURSIVE Split(_)
Split(header) ==
    LET spaces == {i \in 1..Len(header) : header[i] = " "}
    IN IF spaces = {}
       THEN <<header>>
       ELSE LET i == CHOOSE k \in spaces : \A j \in spaces : k <= j
            IN <<SubSeq(header, 1, i - 1)>> \o Split(SubSeq(header, i + 1, Len(header)))

NoGate == [op |-> "none", header |-> <<>>, at |-> 0, user |-> NoClaims,
           next |-> FALSE, response |-> NoResponse]

\* the outcome of the gate when it does not pass the request on
Refuse(header, message) ==
    [op |-> "authenticate", header |-> header, at |-> now, user |-> NoClaims,
     next |-> FALSE, response |-> unauthorized(message)]

\* a gate that does not look at the scheme
authenticate_AnyScheme(header) ==
    IF header = <<>>
    THEN Refuse(header, "No authorization header provided")
    ELSE LET parts == Split(header)
         IN IF Len(parts) # 2
            THEN Refuse(header, "Invalid authorization header format")
            ELSE LET token == TokenOfString(parts[2])
                     verified == verifyAccessToken(token)
                 IN IF verified = "ok"
                    THEN [op |-> "authenticate", header |-> header, at |-> now,
                          user |-> token.payload, next |-> TRUE,
                          response |-> NoResponse]
                    ELSE Refuse(header, "Invalid token")

authenticate(header) ==
    IF header = <<>>
    THEN Refuse(header, "No authorization header provided")
    ELSE LET parts == Split(header)
         IN IF Len(parts) # 2 \/ parts[1] # <<"Bearer">>
            THEN Refuse(header, "Invalid authorization header format")
            ELSE LET token == TokenOfString(parts[2])
                     verified == verifyAccessToken(token)
                 IN IF verified = "ok"
                    THEN [op |-> "authenticate", header |-> header, at |-> now,
                          user |-> token.payload, next |-> TRUE,
                          response |-> NoResponse]
                    ELSE IF verified = "TokenExpiredError"
                    THEN Refuse(header, "Token has expired")
                    ELSE IF verified = "JsonWebTokenError"
                    THEN Refuse(header, "Invalid token")
                    ELSE Refuse(header, "Authentication failed")

\* a request with this Authorization header reaches the gate
Authenticate(header) ==
    /\ gate' = authenticate(header)
    /\ UNCHANGED <<sessionVars, authz, hubVars, rentalVars>>

-----------------------------------------------------------------------------
(* websocket/WebSocketService.  Every handler runs to completion: an action  *)
(* is one handler.                                                           *)

ConnIds == {"c1", "c2"}
RegulatorIds == {"r1"}

\* the regulators' rows: fleet and owner of each regulator a channel is for
RegulatorScope == [r \in RegulatorIds |-> [fleetId |-> "f1", ownerUserId |-> "u2"]]

\* url.searchParams.get('token') is null or ''
AbsentToken == [payload |-> [none |-> TRUE], sig |-> "absent"]

\* the actors a connection can present a token of: every role, every fleet scope
HubActors == {actor \in Actors : actor.userId = "u1"}
HubTokens == {AbsentToken, NoToken, BadToken} \cup {AccessTokenOf(actor) : actor \in HubActors}

\* the payloads of a SUBSCRIBE message: a channel name, known or not, with or
\* without its target id
SubscribePayloads ==
    [channel : {"fleet", "regulator", "bogus"}, fleetId : FleetIds \cup {NullId},
     regulatorId : RegulatorIds \cup {NullId}]
NoPayload == [type |-> "", channel |-> "", fleetId |-> NullId, regulatorId |-> NullId]

\* a message as handleMessage parses it: data.type with the fields of data.payload
Message(type, payload) ==
    [type |-> type, channel |-> payload.channel, fleetId |-> payload.fleetId,
     regulatorId |-> payload.regulatorId]

\* events sent to a connection
ErrorEvent(message) == [type |-> "ERROR", payload |-> [message |-> message]]
ConnectedEvent(c, user, subscriptions) ==
    [type |-> "CONNECTED",
     payload |-> [clientId |-> c, userId |-> user.userId, role |-> user.role,
                  subscriptions |-> subscriptions]]
SubscribedEvent(payload) == [type |-> "SUBSCRIBED", payload |-> payload]
UnsubscribedEvent(payload) == [type |-> "UNSUBSCRIBED", payload |-> payload]
\* an event a service broadcasts; the model keeps the channel it was
\* addressed to in its payload
BroadcastEvent(key) == [type |-> "REGULATOR_CHECKED_OUT", payload |-> [key |-> key]]

NoCast == [key |-> <<"", "">>]

\* a connection not yet made; token, at and last are history: the token
\* presented, when, and the last message handled
NewSocket ==
    [state |-> "new", token |-> AbsentToken, at |-> 0, user |-> NoClaims,
     subscriptions |-> {}, sent |-> <<>>, closeCode |-> 0, isAlive |-> FALSE,
     last |-> NoPayload, probed |-> FALSE, handled |-> 0]

\* JSON.parse does not check the payload against its declared type: an id
\* can arrive as a value that is no string.  "[f1]" and "[r1]" stand for the
\* arrays ["f1"] and ["r1"]
JsonArrays == {"[f1]", "[r1]"}
IsObject(id) == id \in JsonArrays

\* the string a template literal makes of an id
String(id) ==
    IF id = "[f1]" THEN "f1" ELSE IF id = "[r1]" THEN "r1" ELSE id

\* `fleet:${fleetId}` and `regulator:${regulatorId}`
FleetKey(fleetId) == <<"fleet", String(fleetId)>>
RegulatorKey(regulatorId) == <<"regulator", String(regulatorId)>>

\* map.get(key) of a Map<string, Set<string>>, the empty set when absent; an
\* object is a key only by identity, and no later call holds the same object
Subscribers(map, key) ==
    IF key \in DOMAIN map /\ ~IsObject(key) THEN map[key] ELSE {}

\* if (!map.has(key)) map.set(key, new Set()); map.get(key).add(c); the
\* entries under arrays of the same content, which no call can look up again,
\* are kept as one
AddSubscriber(map, key, c) ==
    [k \in DOMAIN map \cup {key} |->
        IF k = key THEN (IF key \in DOMAIN map THEN map[key] ELSE {}) \cup {c}
        ELSE map[k]]

\* an auto-subscription for every role that has a fleet
autoSubscribe_AnyRole(user) ==
    IF Truthy(user.fleetId) THEN {user.fleetId} ELSE {}

\* autoSubscribe: the fleets the connection joins on its own
autoSubscribe(user) ==
    IF Truthy(user.fleetId)
       /\ user.role \in {"FLEET_MGR", "SUB_FLEET_MGR", "FLEET_USER"}
    THEN {user.fleetId}
    ELSE {}

canSubscribeToFleet(user, fleetId) ==
    IF user.role = "ADMIN" \/ user.role = "SUB_ADMIN"
    THEN TRUE
    ELSE IF user.role \in {"FLEET_MGR", "SUB_FLEET_MGR", "FLEET_USER"}
    THEN user.fleetId = fleetId
    ELSE FALSE

\* wss.on('connection'): the connection handler
Connect(c, token) ==
    /\ sockets[c].state = "new"
    /\ LET client == [NewSocket EXCEPT !.token = token, !.at = now, !.isAlive = TRUE]
       IN IF token = AbsentToken
          THEN /\ sockets' = [sockets EXCEPT ![c] =
                     [client EXCEPT !.sent = <<ErrorEvent("Authentication required")>>,
                                    !.state = "closed", !.closeCode = 4001]]
               /\ UNCHANGED <<clients, fleetSubscriptions>>
          ELSE IF verifyAccessToken(token) = "ok"
          THEN LET payload == token.payload
                   fleets == autoSubscribe(payload)
                   subscriptions == {FleetKey(fleetId) : fleetId \in fleets}
               IN /\ clients' = clients \cup {c}
                  /\ fleetSubscriptions' =
                        IF fleets = {} THEN fleetSubscriptions
                        ELSE AddSubscriber(fleetSubscriptions, payload.fleetId, c)
                  /\ sockets' = [sockets EXCEPT ![c] =
                        [client EXCEPT !.state = "open", !.user = payload,
                                       !.subscriptions = subscriptions,
                                       !.sent = <<ConnectedEvent(c, payload, subscriptions)>>]]
          ELSE /\ sockets' = [sockets EXCEPT ![c] =
                     [client EXCEPT !.sent = <<ErrorEvent("Invalid or expired token")>>,
                                    !.state = "closed", !.closeCode = 4002]]
               /\ UNCHANGED <<clients, fleetSubscriptions>>
    /\ UNCHANGED <<sessionVars, authz, gate, rentalVars, regulatorSubscriptions, cast>>

\* handleMessage of a SUBSCRIBE: handleSubscribe
Subscribe(c, payload) ==
    /\ sockets[c].state = "open"
    /\ LET client == [sockets[c] EXCEPT !.last = Message("SUBSCRIBE", payload)]
           Send(event) == [client EXCEPT !.sent = Append(@, event)]
       IN IF payload.channel = "fleet" /\ Truthy(payload.fleetId)
          THEN IF ~canSubscribeToFleet(client.user, payload.fleetId)
               THEN /\ sockets' = [sockets EXCEPT ![c] =
                          Send(ErrorEvent("Not authorized to subscribe to this fleet"))]
                    /\ UNCHANGED <<fleetSubscriptions, regulatorSubscriptions>>
               ELSE /\ sockets' = [sockets EXCEPT ![c] =
                          [Send(SubscribedEvent(payload)) EXCEPT
                              !.subscriptions = @ \cup {FleetKey(payload.fleetId)}]]
                    /\ fleetSubscriptions' =
                          AddSubscriber(fleetSubscriptions, payload.fleetId, c)
                    /\ UNCHANGED regulatorSubscriptions
          ELSE IF payload.channel = "regulator" /\ Truthy(payload.regulatorId)
          THEN /\ sockets' = [sockets EXCEPT ![c] =
                     [Send(SubscribedEvent(payload)) EXCEPT
                         !.subscriptions = @ \cup {RegulatorKey(payload.regulatorId)}]]
               /\ regulatorSubscriptions' =
                     AddSubscriber(regulatorSubscriptions, payload.regulatorId, c)
               /\ UNCHANGED fleetSubscriptions
          ELSE /\ sockets' = [sockets EXCEPT ![c] = Send(SubscribedEvent(payload))]
               /\ UNCHANGED <<fleetSubscriptions, regulatorSubscriptions>>
    /\ UNCHANGED <<sessionVars, authz, gate, rentalVars, clients, cast>>

\* subscribers.delete(c) on map.get(key), and map.delete(key) when that
\* leaves the set empty; nothing when the map has no such key
RemoveSubscriber(map, key, c) ==
    IF key \notin DOMAIN map \/ IsObject(key) THEN map
    ELSE IF map[key] \ {c} = {} THEN [k \in DOMAIN map \ {key} |-> map[k]]
    ELSE [map EXCEPT ![key] = @ \ {c}]

\* handleMessage of an UNSUBSCRIBE: handleUnsubscribe
Unsubscribe(c, payload) ==
    /\ sockets[c].state = "open"
    /\ LET client == [sockets[c] EXCEPT !.last = Message("UNSUBSCRIBE", payload),
                                        !.sent = Append(@, UnsubscribedEvent(payload))]
       IN IF payload.channel = "fleet" /\ Truthy(payload.fleetId)
          THEN /\ sockets' = [sockets EXCEPT ![c] =
                     [client EXCEPT !.subscriptions = @ \ {FleetKey(payload.fleetId)}]]
               /\ fleetSubscriptions' =
                     RemoveSubscriber(fleetSubscriptions, payload.fleetId, c)
               /\ UNCHANGED regulatorSubscriptions
          ELSE IF payload.channel = "regulator" /\ Truthy(payload.regulatorId)
          THEN /\ sockets' = [sockets EXCEPT ![c] =
                     [client EXCEPT !.subscriptions = @ \ {RegulatorKey(payload.regulatorId)}]]
               /\ regulatorSubscriptions' =
                     RemoveSubscriber(regulatorSubscriptions, payload.regulatorId, c)
               /\ UNCHANGED fleetSubscriptions
          ELSE /\ sockets' = [sockets EXCEPT ![c] = client]
               /\ UNCHANGED <<fleetSubscriptions, regulatorSubscriptions>>
    /\ UNCHANGED <<sessionVars, authz, gate, rentalVars, clients, cast>>

\* handleDisconnect for every client of the set dead, on one of the two maps:
\* each key of client.subscriptions that starts with the prefix is cut back to
\* the id after it and unsubscribed under that id
Unwind(map, prefix, dead) ==
    LET gone(k) == {c \in dead : <<prefix, k>> \in sockets[c].subscriptions}
        touched == {k \in DOMAIN map : gone(k) # {}}
        kept == {k \in DOMAIN map : k \notin touched \/ map[k] \ gone(k) # {}}
    IN [k \in kept |-> IF k \in touched THEN map[k] \ gone(k) ELSE map[k]]

\* handleDisconnect, for the clients of the set dead; each is left in state
\* `state`
handleDisconnect(dead, state) ==
    /\ fleetSubscriptions' = Unwind(fleetSubscriptions, "fleet", dead)
    /\ regulatorSubscriptions' = Unwind(regulatorSubscriptions, "regulator", dead)
    /\ clients' = clients \ dead
    /\ sockets' = [c \in ConnIds |->
          IF c \in dead
          THEN [sockets[c] EXCEPT !.state = state, !.subscriptions = {},
                                  !.handled = @ + 1]
          ELSE sockets[c]]

\* client.on('close'): the client has closed, or the socket the heartbeat
\* terminated has closed
Close(c) ==
    /\ sockets[c].state \in {"open", "terminated"}
    /\ handleDisconnect({c}, "closed")
    /\ UNCHANGED <<sessionVars, authz, gate, rentalVars, cast>>

\* client.on('pong')
Pong(c) ==
    /\ sockets[c].state = "open"
    /\ ~sockets[c].isAlive
    /\ sockets' = [sockets EXCEPT ![c].isAlive = TRUE, ![c].probed = FALSE]
    /\ UNCHANGED <<sessionVars, authz, gate, rentalVars, clients, fleetSubscriptions,
                   regulatorSubscriptions, cast>>

\* a heartbeat that never gives a connection up
Expired_Never(c) == FALSE

\* the heartbeat's test on a client: it has not answered the last ping
Expired(c) == ~sockets[c].isAlive

\* the heartbeat interval: every client that did not answer is disconnected
\* and terminated, every other is marked and pinged
Heartbeat ==
    /\ clients # {}
    /\ LET dead == {c \in clients : Expired(c)}
       IN /\ fleetSubscriptions' = Unwind(fleetSubscriptions, "fleet", dead)
          /\ regulatorSubscriptions' = Unwind(regulatorSubscriptions, "regulator", dead)
          /\ clients' = clients \ dead
          /\ sockets' = [c \in ConnIds |->
                IF c \in dead
                THEN [sockets[c] EXCEPT !.state = "terminated", !.subscriptions = {},
                                        !.handled = @ + 1]
                ELSE IF c \in clients
                THEN [sockets[c] EXCEPT !.isAlive = FALSE, !.probed = TRUE]
                ELSE sockets[c]]
    /\ UNCHANGED <<sessionVars, authz, gate, rentalVars, cast>>

\* the clients a broadcast over the subscriber set reaches: those the client
\* map holds and whose socket is open
Reached(subscribers) ==
    {c \in subscribers : c \in clients /\ sockets[c].state = "open"}

Deliver(reached, event) ==
    [c \in ConnIds |-> IF c \in reached
                       THEN [sockets[c] EXCEPT !.sent = Append(@, event)]
                       ELSE sockets[c]]

\* broadcastToFleet(fleetId, event)
BroadcastToFleet(fleetId) ==
    /\ sockets' = Deliver(Reached(Subscribers(fleetSubscriptions, fleetId)),
                          BroadcastEvent(FleetKey(fleetId)))
    /\ cast' = [key |-> FleetKey(fleetId)]
    /\ UNCHANGED <<sessionVars, authz, gate, rentalVars, clients, fleetSubscriptions,
                   regulatorSubscriptions>>

\* broadcastToRegulator(regulatorId, event)
BroadcastToRegulator(regulatorId) ==
    /\ sockets' = Deliver(Reached(Subscribers(regulatorSubscriptions, regulatorId)),
                          BroadcastEvent(RegulatorKey(regulatorId)))
    /\ cast' = [key |-> RegulatorKey(regulatorId)]
    /\ UNCHANGED <<sessionVars, authz, gate, rentalVars, clients, fleetSubscriptions,
                   regulatorSubscriptions>>

InitHub ==
    /\ sockets = [c \in ConnIds |-> NewSocket]
    /\ clients = {}
    /\ fleetSubscriptions = <<>>
    /\ regulatorSubscriptions = <<>>
    /\ cast = NoCast

-----------------------------------------------------------------------------
(* services/RentalService and services/RegulatorService, for regulator "r1". *)
(* One request at a time: an action is one request, from the controller's    *)
(* read of the regulator to the response; a request that throws changes      *)
(* nothing and is a guard.                                                   *)

RegulatorStatus == {"WAREHOUSE", "READY", "CHECKED_OUT", "CHARGING", "MAINTENANCE"}

\* body('status').optional().isIn(['READY', 'CHARGING', 'MAINTENANCE'])
CheckinStatus == {"READY", "CHARGING", "MAINTENANCE"}

\* an optional field of a request body that was left out
Undefined == "undefined"

\* Regulator.findByPk: the model is paranoid, a destroyed row is not found
Found == ~regulator.deleted

\* the broadcast of a rental event to the fleet's channel
Notify(fleetId) ==
    /\ sockets' = Deliver(Reached(Subscribers(fleetSubscriptions, fleetId)),
                          BroadcastEvent(FleetKey(fleetId)))
    /\ cast' = [key |-> FleetKey(fleetId)]
    /\ UNCHANGED <<clients, fleetSubscriptions, regulatorSubscriptions>>

\* RegulatorController.checkout and RentalService.checkout; the unique index
\* on regulator_id makes Rental.create throw when the regulator has a row
Checkout ==
    /\ Found
    /\ Truthy(regulator.fleetId)
    /\ regulator.status = "READY"
    /\ \A rental \in rentals : rental.regulatorId # "r1"
    /\ rentals' = rentals \cup {[id |-> nextRental + 1, regulatorId |-> "r1",
                                  fleetId |-> regulator.fleetId,
                                  checkinDateTime |-> Null]}
    /\ nextRental' = nextRental + 1
    /\ regulator' = [regulator EXCEPT !.status = "CHECKED_OUT"]
    /\ Notify(regulator.fleetId)
    /\ UNCHANGED <<sessionVars, authz, gate>>

\* RegulatorController.checkin and RentalService.checkin
Checkin(rentalId, status) ==
    /\ Found
    /\ Truthy(regulator.fleetId)
    /\ \E rental \in rentals :
          /\ rental.id = rentalId
          /\ rental.regulatorId = "r1"
          /\ rental.checkinDateTime = Null
          /\ rentals' = rentals \ {rental}
    /\ regulator' = [regulator EXCEPT !.status =
                        IF status = Undefined THEN "CHARGING" ELSE status]
    /\ Notify(regulator.fleetId)
    /\ UNCHANGED <<sessionVars, authz, gate, nextRental>>

\* RegulatorService.updateRegulator: status and fleetId of the body, each
\* kept when left out
updateRegulator(status, fleetId) ==
    /\ Found
    /\ regulator' = [regulator EXCEPT
          !.status = IF status = Undefined THEN @ ELSE status,
          !.fleetId = IF fleetId = Undefined THEN @ ELSE fleetId]
    /\ UNCHANGED <<sessionVars, authz, gate, hubVars, rentals, nextRental>>

\* RegulatorService.deleteRegulator
deleteRegulator ==
    /\ Found
    /\ regulator.status # "CHECKED_OUT"
    /\ regulator' = [regulator EXCEPT !.isActive = FALSE, !.deleted = TRUE]
    /\ UNCHANGED <<sessionVars, authz, gate, hubVars, rentals, nextRental>>

\* RegulatorService.assignToFleet
assignToFleet(fleetId) ==
    /\ Found
    /\ regulator.status # "CHECKED_OUT"
    /\ regulator' = [regulator EXCEPT !.fleetId = fleetId, !.status = "READY",
                                      !.ownerUserId = NullId]
    /\ UNCHANGED <<sessionVars, authz, gate, hubVars, rentals, nextRental>>

\* RegulatorService.removeFromFleet
removeFromFleet ==
    /\ Found
    /\ regulator.status # "CHECKED_OUT"
    /\ regulator' = [regulator EXCEPT !.fleetId = NullId, !.status = "WAREHOUSE"]
    /\ UNCHANGED <<sessionVars, authz, gate, hubVars, rentals, nextRental>>

\* the regulator is in fleet f1, ready, and has never been rented
InitRental ==
    /\ regulator = [status |-> "READY", fleetId |-> "f1", ownerUserId |-> NullId,
                    isActive |-> TRUE, deleted |-> FALSE]
    /\ rentals = {}
    /\ nextRental = 0

-----------------------------------------------------------------------------

InitSessions ==
    /\ now = 0
    /\ nextUuid = 1
    /\ users = InitUsers
    /\ ledger = <<>>
    /\ resets = <<>>
    /\ pc = [p \in Procs |-> "idle"]
    /\ local = [p \in Procs |-> NoLocal]
    /\ result = [p \in Procs |-> NoResult]
    /\ epoch = [u \in UserIds |-> 0]
    /\ born = <<>>

Init ==
    /\ InitSessions
    /\ authz = NoAuthz(GateActor)
    /\ gate = NoGate
    /\ InitHub
    /\ InitRental

Quiet == \A q \in Procs : Idle(q)

\* Bounding the tables: a request that may insert a row starts only while
\* the rows present and those of the requests in flight leave room for it.
Inserting == {p \in Procs : local[p].op \in {"login", "refresh"} /\ ~Idle(p)}
Minting == {p \in Procs : local[p].op = "forgot" /\ ~Idle(p)}
\* a refresh inserts a row only when it reads an unrevoked row of its token
Live(token) == \E i \in 1..Len(ledger) : /\ ledger[i].tokenHash = hashToken(token)
                                         /\ ledger[i].revokedAt = Null
LedgerRoom(cap) == Len(ledger) + Cardinality(Inserting) < cap
ResetsRoom(cap) == Len(resets) + Cardinality(Minting) < cap

\* the passwords a user can have
StrongPasswords == {password \in Passwords : validatePasswordStrength(password)}

\* session requests: login by one of emails, refresh, logout by one of callers
Call(p, emails, callers, cap) ==
    \/ LedgerRoom(cap) /\ \E email \in emails, password \in StrongPasswords :
                             Login(p, email, password)
    \/ \E token \in KnownTokens : (LedgerRoom(cap) \/ ~Live(token)) /\ Refresh(p, token)
    \/ \E userId \in callers, token \in KnownTokens : Logout(p, userId, token)

\* password-reset requests
CallReset(p, emails, cap) ==
    \/ ResetsRoom(cap) /\ \E email \in emails : Forgot(p, email)
    \/ \E token \in KnownResetTokens, password \in Passwords : Reset(p, token, password)

\* the later steps of the session requests
Step(p) ==
    \/ LoginCreate(p)
    \/ LoginUpdate(p)
    \/ RefreshRevokeFamily(p)
    \/ RefreshFindUser(p)
    \/ RefreshRevokeOld(p)
    \/ RefreshCreate(p)
    \/ LogoutUpdate(p)

\* the steps only the requests of a regulator owner take
StepOwner(p) ==
    \/ LoginFindOwned(p)
    \/ RefreshFindOwned(p)

StepReset(p) ==
    \/ ForgotInvalidate(p)
    \/ ForgotCreate(p)
    \/ ResetUpdateUser(p)
    \/ ResetMarkUsed(p)
    \/ ResetRevokeAll(p)

\* Spec: sequential histories of login, refresh and logout, all users,
\* up to MaxLedger + 1 ledger rows
Next ==
    \/ Tick
    \/ \E p \in SeqProcs : Quiet /\ Call(p, Emails, Callers, MaxLedger + 1)
    \/ \E p \in SeqProcs : Step(p) \/ StepOwner(p)

Spec == Init /\ [][Next]_vars

\* SpecForgot: sequential histories of forgotPassword and resetPassword, all
\* users, up to MaxResets + 1 reset records
NextForgot ==
    \/ Tick
    \/ \E p \in SeqProcs : Quiet /\ CallReset(p, Emails, MaxResets + 1)
    \/ \E p \in SeqProcs : StepReset(p)

SpecForgot == Init /\ [][NextForgot]_vars

\* SpecReset: sequential histories of all five requests for the one user
\* "u1", who owns no regulator
OneEmail == {"mgr@vmax", "nobody@vmax"}
OneCaller == {"u1"}

NextReset ==
    \/ Tick
    \/ \E p \in SeqProcs : Quiet /\ (\/ Call(p, OneEmail, OneCaller, MaxLedger)
                                     \/ CallReset(p, OneEmail, MaxResets))
    \/ \E p \in SeqProcs : Step(p) \/ StepReset(p)

SpecReset == Init /\ [][NextReset]_vars

\* SpecConc: the session requests of two clients of user "u1" interleave at
\* their storage reads and writes
NextConc ==
    \/ Tick
    \/ \E p \in Procs : Call(p, OneEmail, OneCaller, MaxLedger + 1)
    \/ \E p \in Procs : Step(p)

SpecConc == Init /\ [][NextConc]_vars

\* SpecConcReset: the session requests of client 1 interleave with the
\* password-reset requests of client 2, both for user "u1"
NextConcReset ==
    \/ Tick
    \/ Call(1, OneEmail, OneCaller, MaxLedger)
    \/ CallReset(2, OneEmail, MaxResets)
    \/ Step(1)
    \/ StepReset(2)

SpecConcReset == Init /\ [][NextConcReset]_vars

\* SpecConcForgot: the password-reset requests of two clients of user "u1"
\* interleave at their storage reads and writes
NextConcForgot ==
    \/ Tick
    \/ \E p \in Procs : CallReset(p, OneEmail, MaxResets)
    \/ \E p \in Procs : StepReset(p)

SpecConcForgot == Init /\ [][NextConcForgot]_vars

\* SpecAuthz: the authorization predicates asked for every actor, fleet,
\* regulator fleet and owner, target role and target fleet
InitAuthz ==
    /\ InitSessions
    /\ \E user \in Actors : authz = NoAuthz(user)
    /\ gate = NoGate
    /\ InitHub
    /\ InitRental

NextAuthz ==
    \/ \E fleetId \in FleetIds : AskFleet(fleetId)
    \/ \E regulatorFleetId \in FleetIds \cup {NullId},
          regulatorOwnerId \in UserIds \cup {NullId} :
             AskRegulator(regulatorFleetId, regulatorOwnerId)
    \/ \E targetUserRole \in UserRole, targetUserFleetId \in FleetIds \cup {NullId} :
             AskManage(targetUserRole, targetUserFleetId)

SpecAuthz == InitAuthz /\ [][NextAuthz]_vars

\* SpecGate: a request with any Authorization header reaches the gate at any
\* time (the gate keeps no state from one request to the next)
NextGate ==
    \/ Tick
    \/ gate = NoGate /\ \E header \in Headers : Authenticate(header)

SpecGate == Init /\ [][NextGate]_vars

\* SpecHub: one connection presents any token at any time and then sends
\* SUBSCRIBE messages
OneConn == {"c1"}

NextHub ==
    \/ Tick
    \/ \E c \in OneConn, token \in HubTokens : Connect(c, token)
    \/ \E c \in OneConn, payload \in SubscribePayloads :
          Len(sockets[c].sent) < MaxSent /\ Subscribe(c, payload)

SpecHub == Init /\ [][NextHub]_vars

\* SpecChannels: two connections, of a fleet user and of an administrator,
\* subscribe, unsubscribe, answer or miss the heartbeat and close, while the
\* services broadcast to the channels
ChannelActors ==
    [c1 |-> [userId |-> "u1", role |-> "FLEET_USER", fleetId |-> "f1"],
     c2 |-> [userId |-> "u1", role |-> "ADMIN", fleetId |-> NullId]]

\* the messages name one channel, by a string or by an array of one string
ChannelPayloads ==
    {[channel |-> "fleet", fleetId |-> f, regulatorId |-> NullId] :
        f \in FleetIds \cup {"[f1]"}}
    \cup {[channel |-> "regulator", fleetId |-> NullId, regulatorId |-> r] :
        r \in RegulatorIds \cup {"[r1]"}}

\* the hub has sent fewer than MaxSent events to every connection
SendRoom == \A c \in ConnIds : Len(sockets[c].sent) < MaxSent

NextChannels ==
    \/ \E c \in ConnIds : Connect(c, AccessTokenOf(ChannelActors[c]))
    \/ \E c \in ConnIds, payload \in ChannelPayloads : SendRoom /\ Subscribe(c, payload)
    \/ \E c \in ConnIds, payload \in ChannelPayloads : SendRoom /\ Unsubscribe(c, payload)
    \/ \E c \in ConnIds : Close(c)
    \/ \E c \in ConnIds : Pong(c)
    \/ Heartbeat
    \/ \E fleetId \in FleetIds : SendRoom /\ BroadcastToFleet(fleetId)
    \/ \E regulatorId \in RegulatorIds : SendRoom /\ BroadcastToRegulator(regulatorId)

SpecChannels == Init /\ [][NextChannels]_vars

\* SpecRental: the requests on regulator "r1", one at a time
NextRental ==
    \/ nextRental < MaxRentals /\ Checkout
    \/ \E rentalId \in 1..MaxRentals, status \in CheckinStatus \cup {Undefined} :
          Checkin(rentalId, status)
    \/ \E status \in RegulatorStatus \cup {Undefined},
          fleetId \in FleetIds \cup {NullId, Undefined} : updateRegulator(status, fleetId)
    \/ deleteRegulator
    \/ \E fleetId \in FleetIds : assignToFleet(fleetId)
    \/ removeFromFleet

SpecRental == Init /\ [][NextRental]_vars

-----------------------------------------------------------------------------
(* Claims *)

\* the ledger rows of token family f
FamilyRows(f) == {i \in 1..Len(ledger) : ledger[i].tokenFamily = f}

Succeeded(p) == result[p].status = 200

\* C1: a refreshTokens call presenting a (verifiable) refresh token that has a
\* revoked ledger row fails with 403 TOKEN_REVOKED and leaves every row of
\* that row's family revoked.
C1_ReplayIsRejected ==
    \A p \in Procs :
        (Done(p, "refresh") /\ local[p].pre.valid /\ local[p].pre.revoked)
        => /\ result[p].status = 403
           /\ result[p].code = "TOKEN_REVOKED"
           /\ \A i \in FamilyRows(local[p].token.payload.tokenFamily) :
                 ledger[i].revokedAt # Null

\* C2: of two refreshTokens calls that both arrived with the identical valid
\* (verifiable, recorded, not revoked) refresh token, exactly one returns a
\* token pair, the other fails with TOKEN_REVOKED, and the family is revoked.
C2_ExactlyOneRotates ==
    \A p, q \in Procs :
        (/\ p # q
         /\ Done(p, "refresh") /\ Done(q, "refresh")
         /\ local[p].token = local[q].token
         /\ \A r \in {p, q} : /\ local[r].pre.valid
                              /\ local[r].pre.live
                              /\ ~local[r].pre.revoked)
        => /\ Succeeded(p) # Succeeded(q)
           /\ \E r \in {p, q} : result[r].code = "TOKEN_REVOKED"
           /\ \A i \in FamilyRows(local[p].token.payload.tokenFamily) :
                 ledger[i].revokedAt # Null

\* C3: a row inserted by login has a family no earlier row has; a row inserted
\* by a rotation has the family and the user of the row exchanged; no step
\* changes the family of a row or removes a row.
C3_FamilyLineage ==
    [][/\ Len(ledger') >= Len(ledger)
       /\ \A i \in 1..Len(ledger) : ledger'[i].tokenFamily = ledger[i].tokenFamily
       /\ Len(ledger') > Len(ledger) =>
            \E p \in Procs :
               /\ pc[p] \in {"login_create", "refresh_create"}
               /\ pc'[p] # pc[p]
               /\ LET new == ledger'[Len(ledger')]
                  IN IF local[p].op = "login"
                     THEN \A i \in 1..Len(ledger) : ledger[i].tokenFamily # new.tokenFamily
                     ELSE /\ new.tokenFamily = ledger[local[p].row].tokenFamily
                          /\ new.userId = ledger[local[p].row].userId
      ]_vars

\* C3 witness: a login row followed by a rotation row of its family, and a
\* second family
C3_Witness ==
    \E i, j, k \in 1..Len(ledger) :
        /\ i < j
        /\ ledger[i].tokenFamily = ledger[j].tokenFamily
        /\ ledger[k].tokenFamily # ledger[i].tokenFamily

\* C4: a refreshTokens call presenting a refresh token issued to a user before
\* a successful resetPassword of that user fails.
C4_ResetEndsOldTokens ==
    \A p \in Procs :
        (Done(p, "refresh") /\ local[p].pre.stale) => ~Succeeded(p)

\* C4 witness: a verifiable token of before the reset was presented and refused
C4_Witness ==
    \E p \in Procs :
        /\ Done(p, "refresh")
        /\ local[p].pre.stale
        /\ local[p].pre.valid
        /\ result[p].status \in {401, 403}

\* C5: no unrevoked, unexpired ledger row of a user stems from credentials or
\* from a refresh token of before the user's latest successful resetPassword,
\* also when a refreshTokens or a login of the user ran while the reset did.
C5_NoSessionSurvivesReset ==
    \A i \in 1..Len(ledger) :
        (ledger[i].revokedAt = Null /\ ledger[i].expiresAt >= now)
        => born[i] = epoch[ledger[i].userId]

\* the logout request of p takes a step
LogoutStep(p) ==
    /\ local'[p].op = "logout"
    /\ <<pc'[p], local'[p], result'[p]>> # <<pc[p], local[p], result[p]>>

\* the unrevoked rows of rows that record token for userId
Matching(rows, userId, token) ==
    {i \in 1..Len(rows) : /\ rows[i].tokenHash = hashToken(token)
                          /\ rows[i].userId = userId
                          /\ rows[i].revokedAt = Null}

C7_LogoutEndsFamily ==
    \A p \in Procs :
        (/\ Done(p, "logout")
         /\ \E i \in 1..Len(ledger) : /\ ledger[i].tokenHash = hashToken(local[p].token)
                                      /\ ledger[i].userId = local[p].userId)
        => \A i \in FamilyRows(local[p].token.payload.tokenFamily) :
              ledger[i].revokedAt # Null

\* the login request of p returns
LoginReturns(p) ==
    /\ local'[p].op = "login"
    /\ pc'[p] = "idle"
    /\ <<pc'[p], local'[p], result'[p]>> # <<pc[p], local[p], result[p]>>

\* the active user with this email, if any
ActiveUser(email) == {u \in UserIds : users[u].email = email /\ users[u].isActive}

\* C8: a login whose email matches no active user and a login with a wrong
\* password return the same 401 INVALID_CREDENTIALS error, and such a login
\* writes no ledger row and no lastLoginAt.
C8_LoginFailsAlike ==
    [][\A p \in Procs :
         LET email == local'[p].email
             password == local'[p].password
             rejected == \/ ActiveUser(email) = {}
                         \/ \E u \in ActiveUser(email) :
                               users[u].passwordHash # hashPassword(password)
         IN (LoginReturns(p) /\ (rejected \/ result'[p].status # 200))
            => /\ rejected
               /\ Idle(p)
               /\ result'[p] = AppError("Invalid email or password", 401,
                                        "INVALID_CREDENTIALS")
               /\ ledger' = ledger
               /\ users' = users
      ]_vars

\* C8 witness: a user who has logged in before is refused for a wrong password
C8_Witness ==
    \E p \in Procs :
        /\ Done(p, "login")
        /\ result[p].status = 401
        /\ \E u \in ActiveUser(local[p].email) :
              /\ users[u].passwordHash # hashPassword(local[p].password)
              /\ users[u].lastLoginAt # Null
        /\ Len(ledger) > 0

\* C9: a login of an active user with the matching password returns an access
\* token whose claims are the user's id, stored role, fleet and active owned
\* regulators, and a refresh token that refreshTokens accepts when it is
\* presented at once.
C9_LoginGrantsScope ==
    \A p \in Procs :
        /\ Done(p, "login")
             => \A u \in ActiveUser(local[p].email) :
                  users[u].passwordHash = hashPassword(local[p].password)
                  => /\ Succeeded(p)
                     /\ LET claims == result[p].accessToken.payload
                        IN /\ claims.userId = u
                           /\ claims.role = users[u].role
                           /\ claims.fleetId = users[u].fleetId
                           /\ claims.ownedRegulatorIds =
                                IF users[u].role = "REG_OWNER"
                                THEN {r.id : r \in {x \in Regulators :
                                                x.ownerUserId = u /\ x.isActive}}
                                ELSE {}
                     /\ Len(ledger) > 0
                     /\ ledger[Len(ledger)].tokenHash = hashToken(result[p].refreshToken)
                     /\ ledger[Len(ledger)].revokedAt = Null
                     /\ ledger[Len(ledger)].userId = u
        /\ (Done(p, "refresh") /\ local[p].pre.fresh /\ local[p].pre.valid)
             => Succeeded(p)

\* C9 witness: the refresh token of a regulator owner's login has been
\* exchanged at once
C9_Witness ==
    \E p \in Procs :
        /\ Done(p, "refresh")
        /\ local[p].pre.fresh
        /\ Succeeded(p)
        /\ result[p].accessToken.payload.ownedRegulatorIds # {}

\* C10: forgotPassword answers alike whether or not the email matches an
\* active user, and no user has more than one unused password-reset row.
C10_OneUnusedReset ==
    /\ \A p \in Procs :
          Done(p, "forgot")
          => result[p] = MessageResponse("Password reset email sent if account exists")
    /\ \A u \in UserIds :
          Cardinality({i \in 1..Len(resets) :
                          resets[i].userId = u /\ resets[i].usedAt = Null}) <= 1

\* C10 witness: a second forgotPassword of a user has returned
C10_Witness ==
    \E p \in Procs, u \in UserIds :
        /\ Done(p, "forgot")
        /\ users[u].email = local[p].email
        /\ Cardinality({i \in 1..Len(resets) : resets[i].userId = u}) >= 2

\* C11: a password-reset token is accepted at most once: of two resetPassword
\* calls with the same token, one after the other or overlapping, at most one
\* succeeds, and the other fails with 400 INVALID_RESET_TOKEN.
C11_ResetTokenOnce ==
    \A p, q \in Procs :
        (/\ p # q
         /\ Done(p, "reset") /\ Done(q, "reset")
         /\ local[p].token = local[q].token
         /\ Succeeded(p))
        => /\ ~Succeeded(q)
           /\ result[q].code \in {"INVALID_RESET_TOKEN", "WEAK_PASSWORD"}

\* C12: a refreshTokens call rejected by jwt.verify (bad signature, embedded
\* expiry) and one rejected by the ledger (row not found, revoked or expired)
\* answer with the same status, error code and message.
C12_RefreshFailsAlike ==
    \A p, q \in Procs :
        (/\ Done(p, "refresh") /\ ~Succeeded(p) /\ ~local[p].pre.valid
         /\ Done(q, "refresh") /\ ~Succeeded(q) /\ local[q].pre.valid)
        => /\ result[p].status = result[q].status
           /\ result[p].code = result[q].code
           /\ result[p].message = result[q].message

SystemWide == {"ADMIN", "SUB_ADMIN"}
FleetScoped == {"FLEET_MGR", "SUB_FLEET_MGR", "FLEET_USER"}

\* C13: canAccessFleet(actor, fleetId) is true exactly when the actor is ADMIN
\* or SUB_ADMIN, or is FLEET_MGR, SUB_FLEET_MGR or FLEET_USER with fleet scope
\* fleetId.
C13_CanAccessFleet ==
    authz.op = "canAccessFleet"
    => (authz.allowed <=> \/ authz.user.role \in SystemWide
                          \/ /\ authz.user.role \in FleetScoped
                             /\ authz.user.fleetId = authz.fleetId)

\* C14: canAccessRegulator is true exactly when the actor is ADMIN or
\* SUB_ADMIN, or a fleet role whose fleet scope is the regulator's (set) fleet,
\* or the REG_OWNER who owns the regulator.
C14_CanAccessRegulator ==
    authz.op = "canAccessRegulator"
    => (authz.allowed <=> \/ authz.user.role \in SystemWide
                          \/ /\ authz.user.role \in FleetScoped
                             /\ authz.fleetId # NullId
                             /\ authz.user.fleetId = authz.fleetId
                          \/ /\ authz.user.role = "REG_OWNER"
                             /\ authz.ownerId = authz.user.userId)

\* C14 witness: a fleet user without a fleet asks for a regulator without one
\* and is refused
C14_Witness ==
    /\ authz.op = "canAccessRegulator"
    /\ authz.user.role = "FLEET_USER"
    /\ authz.user.fleetId = NullId
    /\ authz.fleetId = NullId
    /\ ~authz.allowed

\* C15: canManageUser is true exactly when the actor is ADMIN or SUB_ADMIN, or
\* is FLEET_MGR and the target is a FLEET_USER or SUB_FLEET_MGR of the actor's
\* fleet.
C15_CanManageUser ==
    authz.op = "canManageUser"
    => (authz.allowed <=> \/ authz.user.role \in SystemWide
                          \/ /\ authz.user.role = "FLEET_MGR"
                             /\ authz.role \in {"FLEET_USER", "SUB_FLEET_MGR"}
                             /\ authz.user.fleetId = authz.fleetId)

\* C16: a FLEET_MGR never manages an ADMIN, SUB_ADMIN or FLEET_MGR, whatever
\* the fleets; an actor who is not ADMIN, SUB_ADMIN or FLEET_MGR manages nobody.
C16_NoEscalation ==
    (authz.op = "canManageUser" /\ authz.allowed)
    => /\ authz.user.role \in {"ADMIN", "SUB_ADMIN", "FLEET_MGR"}
       /\ authz.user.role = "FLEET_MGR"
            => authz.role \notin {"ADMIN", "SUB_ADMIN", "FLEET_MGR"}

\* C16 witness: a fleet manager is refused an ADMIN whose fleet id equals the
\* manager's (both absent)
C16_Witness ==
    /\ authz.op = "canManageUser"
    /\ authz.user.role = "FLEET_MGR"
    /\ authz.role = "ADMIN"
    /\ authz.user.fleetId = NullId
    /\ authz.fleetId = NullId
    /\ ~authz.allowed

\* C17: the gate attaches claims and passes the request on exactly when the
\* header is "Bearer", one space, and a token that verifies at that time;
\* otherwise it attaches nothing and answers 401 UNAUTHORIZED.
C17_GateIsExact ==
    gate.op = "authenticate"
    => LET h == gate.header
           wellFormed == Len(h) = 3 /\ h[1] = "Bearer" /\ h[2] = " " /\ h[3] = "access"
           verifies == gate.at < AccessTokenOf(GateActor).payload.exp
       IN /\ gate.next <=> (wellFormed /\ verifies)
          /\ gate.next => /\ gate.user = AccessTokenOf(GateActor).payload
                          /\ gate.response = NoResponse
          /\ ~gate.next => /\ gate.user = NoClaims
                           /\ gate.response.status = 401
                           /\ gate.response.code = "UNAUTHORIZED"

\* C17 witness: a well-formed header with an expired token was refused
C17_Witness ==
    /\ gate.op = "authenticate"
    /\ gate.header = <<"Bearer", " ", "access">>
    /\ ~gate.next
    /\ gate.response.status = 401

\* the channels whose subscriber set holds connection c
ChannelsOf(c) ==
    {FleetKey(k) : k \in {f \in DOMAIN fleetSubscriptions : c \in fleetSubscriptions[f]}}
    \cup {RegulatorKey(k) :
             k \in {r \in DOMAIN regulatorSubscriptions : c \in regulatorSubscriptions[r]}}

\* the connection was never let in: not in the client map, in no channel,
\* never sent CONNECTED
KeptOut(c) ==
    /\ c \notin clients
    /\ ChannelsOf(c) = {}
    /\ \A i \in 1..Len(sockets[c].sent) : sockets[c].sent[i].type # "CONNECTED"

\* the token is an access token signed by the server and not expired at time t
ValidAt(token, t) ==
    /\ \E actor \in HubActors : token = AccessTokenOf(actor)
    /\ t < token.payload.exp

\* C18: a connection that presents no token is closed with code 4001, one
\* that presents an invalid or expired access token is closed with code 4002,
\* and neither is ever in the client map, in a channel's subscriber set, or
\* sent a CONNECTED event.
C18_RejectedConnection ==
    \A c \in ConnIds :
        LET s == sockets[c]
        IN s.state # "new" =>
             /\ s.token = AbsentToken =>
                   s.state = "closed" /\ s.closeCode = 4001 /\ KeptOut(c)
             /\ (s.token # AbsentToken /\ ~ValidAt(s.token, s.at)) =>
                   s.state = "closed" /\ s.closeCode = 4002 /\ KeptOut(c)

\* C18 witness: a connection that presented an expired access token was
\* closed with code 4002
C18_Witness ==
    \E c \in ConnIds :
        /\ sockets[c].state = "closed"
        /\ sockets[c].closeCode = 4002
        /\ \E actor \in HubActors : sockets[c].token = AccessTokenOf(actor)
        /\ sockets[c].at >= sockets[c].token.payload.exp

\* the natural channel of a connection's claims: the channel of its fleet for
\* a fleet-scoped role that has a fleet, none otherwise
NaturalChannels(user) ==
    IF user.role \in FleetScoped /\ user.fleetId # NullId
    THEN {FleetKey(user.fleetId)}
    ELSE {}

\* the connection has authenticated and the hub has handled no message of it
JustAuthenticated(c) ==
    /\ sockets[c].state = "open"
    /\ Len(sockets[c].sent) = 1
    /\ sockets[c].last = NoPayload

\* C19: immediately after a connection authenticates, its subscriptions are
\* exactly its natural channel: the channel of its own fleet for FLEET_MGR,
\* SUB_FLEET_MGR and FLEET_USER, nothing for every other role; the CONNECTED
\* event lists exactly these subscriptions.
C19_NaturalChannel ==
    \A c \in ConnIds :
        JustAuthenticated(c) =>
            LET s == sockets[c]
            IN /\ s.subscriptions = NaturalChannels(s.user)
               /\ ChannelsOf(c) = NaturalChannels(s.user)
               /\ s.sent[1].type = "CONNECTED"
               /\ s.sent[1].payload.subscriptions = NaturalChannels(s.user)

\* C19 witness: a FLEET_USER of fleet f2 has just authenticated and is in
\* the channel of f2
C19_Witness ==
    \E c \in ConnIds :
        /\ JustAuthenticated(c)
        /\ sockets[c].user.role = "FLEET_USER"
        /\ sockets[c].user.fleetId = "f2"
        /\ c \in Subscribers(fleetSubscriptions, "f2")
        /\ sockets[c].sent[1].payload.subscriptions = {FleetKey("f2")}

\* the hub has just handled a SUBSCRIBE of connection c to the channel of a fleet
FleetSubscribeHandled(c) ==
    /\ sockets[c].state = "open"
    /\ sockets[c].last.channel = "fleet"
    /\ sockets[c].last.fleetId # NullId

\* the hub granted the last SUBSCRIBE of connection c: it answered SUBSCRIBED
\* and the connection is in the subscriber set of the fleet
FleetSubscribeGranted(c) ==
    LET s == sockets[c]
    IN /\ s.sent[Len(s.sent)].type = "SUBSCRIBED"
       /\ c \in Subscribers(fleetSubscriptions, s.last.fleetId)

\* C20: the hub's decision on a SUBSCRIBE to a fleet channel is canAccessFleet
\* of the REST authorization layer: for every connection's claims and every
\* fleet id, the hub adds the connection to the channel exactly when
\* canAccessFleet(claims, fleetId) is true.
C20_SubscribeIsCanAccessFleet ==
    \A c \in ConnIds :
        FleetSubscribeHandled(c) =>
            (FleetSubscribeGranted(c)
                <=> canAccessFleet([userId |-> sockets[c].user.userId,
                                    role |-> sockets[c].user.role,
                                    fleetId |-> sockets[c].user.fleetId],
                                   sockets[c].last.fleetId))

\* the claims of connection c in the shape the REST authorization layer reads
ClaimsOf(c) ==
    [userId |-> sockets[c].user.userId, role |-> sockets[c].user.role,
     fleetId |-> sockets[c].user.fleetId]

\* C21: a connection is in a regulator channel's subscriber set only if
\* canAccessRegulator holds for its claims and the regulator's fleet and
\* owner: ADMIN or SUB_ADMIN, a fleet role of the regulator's fleet, or the
\* owning REG_OWNER.
C21_RegulatorChannelAuthorized ==
    \A r \in RegulatorIds : \A c \in Subscribers(regulatorSubscriptions, r) :
        canAccessRegulator(ClaimsOf(c), RegulatorScope[r].fleetId,
                           RegulatorScope[r].ownerUserId)

\* the step handles a SUBSCRIBE of connection c: the hub answers it
SubscribeHandled(c) ==
    /\ sockets[c].state = "open"
    /\ sockets'[c].last.type = "SUBSCRIBE"
    /\ \E event \in {sockets'[c].sent[Len(sockets'[c].sent)]} :
          /\ sockets'[c].sent = Append(sockets[c].sent, event)
          /\ event.type \in {"SUBSCRIBED", "ERROR"}

\* what the authorization rules allow: a fleet channel to ADMIN, SUB_ADMIN
\* and the fleet roles of that fleet, a regulator channel by canAccessRegulator
Authorized(user, message) ==
    IF message.channel = "fleet"
    THEN user.role \in SystemWide
         \/ (user.role \in FleetScoped /\ user.fleetId = message.fleetId)
    ELSE canAccessRegulator(user, RegulatorScope[message.regulatorId].fleetId,
                            RegulatorScope[message.regulatorId].ownerUserId)

\* a SUBSCRIBE that names a fleet or a regulator
NamesChannel(message) ==
    \/ message.channel = "fleet" /\ message.fleetId \in FleetIds
    \/ message.channel = "regulator" /\ message.regulatorId \in RegulatorIds

\* C22: an unauthorized SUBSCRIBE is answered with an ERROR event and no
\* SUBSCRIBED ack, adds no subscription (the subscriber sets and the
\* connection's own set are unchanged) and leaves the connection open and
\* registered.
C22_UnauthorizedSubscribe ==
    [][\A c \in ConnIds :
         (/\ SubscribeHandled(c)
          /\ NamesChannel(sockets'[c].last)
          /\ ~Authorized(ClaimsOf(c), sockets'[c].last))
         => /\ sockets'[c].sent[Len(sockets'[c].sent)].type = "ERROR"
            /\ sockets'[c].subscriptions = sockets[c].subscriptions
            /\ fleetSubscriptions' = fleetSubscriptions
            /\ regulatorSubscriptions' = regulatorSubscriptions
            /\ sockets'[c].state = "open"
            /\ c \in clients']_vars

\* the step is a broadcast: it is addressed to the channel key cast'.key
BroadcastStep ==
    \/ cast' # cast
    \/ \E c \in ConnIds :
          sockets'[c].sent = Append(sockets[c].sent, BroadcastEvent(cast'.key))

\* C23: a broadcast addressed to channel key K is sent to every registered
\* open connection that is subscribed to K at that time and to no other
\* connection: not to one subscribed only to another fleet, not to one that
\* has not yet subscribed or has unsubscribed.
C23_BroadcastFanOut ==
    [][BroadcastStep =>
         \A c \in ConnIds :
            IF /\ c \in clients
               /\ sockets[c].state = "open"
               /\ cast'.key \in sockets[c].subscriptions
            THEN sockets'[c].sent = Append(sockets[c].sent, BroadcastEvent(cast'.key))
            ELSE sockets'[c].sent = sockets[c].sent]_vars

\* the connection's disconnect has been handled
Disconnected(c) == sockets[c].handled > 0

\* C24: after a connection's disconnect has been handled, by the client's
\* close or by the liveness probe, its id is absent from the client map and
\* from every fleet and regulator channel's subscriber set, whatever messages
\* preceded it, and handling the disconnect once more changes nothing.
C24_DisconnectCleansUp ==
    \A c \in ConnIds :
        Disconnected(c) => c \notin clients /\ ChannelsOf(c) = {}

\* the step is a tick of the liveness probe: some registered connection is
\* pinged or given up
ProbeTick ==
    \E c \in clients :
        \/ ~sockets[c].probed /\ sockets'[c].probed
        \/ sockets'[c].state = "terminated" /\ sockets[c].state = "open"

\* C25: a registered connection that has not answered the last liveness probe
\* is, at the next probe tick, removed from the client map and from every
\* channel's subscriber set and force-closed; a connection that answered is
\* not removed by the tick.
C25_LivenessProbe ==
    [][ProbeTick =>
         \A c \in clients :
            IF sockets[c].probed
            THEN /\ c \notin clients'
                 /\ ChannelsOf(c)' = {}
                 /\ sockets'[c].state = "terminated"
            ELSE /\ c \in clients'
                 /\ ChannelsOf(c)' = ChannelsOf(c)
                 /\ sockets'[c].state = "open"]_vars

\* C26: whatever the interleaving of connect, SUBSCRIBE, UNSUBSCRIBE,
\* disconnect, liveness probe and broadcast, in every state a broadcast can
\* run in, connection c is in the subscriber set of channel key k exactly when
\* k is in c's own subscription set and c is registered, and no channel keeps
\* an empty subscriber set.
C26_BookkeepingConsistent ==
    /\ \A c \in ConnIds :
          ChannelsOf(c) = IF c \in clients THEN sockets[c].subscriptions ELSE {}
    /\ \A k \in DOMAIN fleetSubscriptions : fleetSubscriptions[k] # {}
    /\ \A k \in DOMAIN regulatorSubscriptions : regulatorSubscriptions[k] # {}

\* the connection is in the subscriber set of the channel a message names
MemberOfNamed(c, message) ==
    \/ /\ message.channel = "fleet"
       /\ message.fleetId # NullId
       /\ c \in Subscribers(fleetSubscriptions, message.fleetId)
    \/ /\ message.channel = "regulator"
       /\ message.regulatorId # NullId
       /\ c \in Subscribers(regulatorSubscriptions, message.regulatorId)

\* C29: the hub sends SUBSCRIBED for a SUBSCRIBE only if, as a result of the
\* message, the connection is in the subscriber set of the channel the
\* message names; a SUBSCRIBE naming an unknown channel, or a known channel
\* without its target id, is never acknowledged.
C29_AckMeansMember ==
    \A c \in ConnIds :
        LET s == sockets[c]
        IN (/\ s.state = "open"
            /\ s.last.type = "SUBSCRIBE"
            /\ s.sent[Len(s.sent)].type = "SUBSCRIBED")
           => MemberOfNamed(c, s.last)

\* C27: no two ledger rows record the same token hash: every login and every
\* rotation mints a refresh token different from every one issued before,
\* also when the rotation happens in the clock second the exchanged token was
\* issued in.
C27_TokenHashUnique ==
    \A i, j \in 1..Len(ledger) :
        i # j => ledger[i].tokenHash # ledger[j].tokenHash

\* the last call of client q was a refreshTokens that detected a reuse: it
\* revoked the family of its token and answered TOKEN_REVOKED
DetectedReuse(q) == Done(q, "refresh") /\ result[q].code = "TOKEN_REVOKED"

\* C28: once a detected reuse has revoked token family F, no unrevoked ledger
\* row of F exists in any later state, also when another refreshTokens call
\* for a token of F had passed its revoked-check before the revocation and
\* completes its rotation after it.
C28_LockoutIsPermanent ==
    \A q \in Procs :
        DetectedReuse(q)
        => \A i \in FamilyRows(local[q].token.payload.tokenFamily) :
              ledger[i].revokedAt # Null

\* the active rentals of the regulator: its rows with no check-in time
ActiveRentals == {rental \in rentals : rental.regulatorId = "r1"
                                        /\ rental.checkinDateTime = Null}

\* C30: after any sequence of checkout, checkin, updateRegulator,
\* assignToFleet, removeFromFleet and deleteRegulator, the regulator has
\* status CHECKED_OUT exactly when it has exactly one active rental, and that
\* rental's fleet is the regulator's fleet.
C30_CheckedOutIffRented ==
    /\ regulator.status = "CHECKED_OUT" <=> Cardinality(ActiveRentals) = 1
    /\ \A rental \in ActiveRentals : rental.fleetId = regulator.fleetId

====
